---- MODULE Spec2Model ----
(***************************************************************************)
(* btlog: the batched, asynchronous Loki shipping client (loki.Client) and *)
(* its append buffer (pkg.Buffer).                                         *)
(*                                                                         *)
(* Three specifications share the variables:                               *)
(*   SpecBuffer  pkg.Buffer alone, driven by direct Add and Flush calls;   *)
(*   Spec        loki.Client: caller goroutines running Start, Stop and    *)
(*               the submit methods, the background worker, the ticker,    *)
(*               the clock and the HTTP transport;                         *)
(*   SpecFlush   Client.flush from a drained batch to the push request.    *)
(* Every atomic access to shared memory (an atomic.Bool operation, a       *)
(* critical section of Buffer.mu, a channel operation, the HTTP call) is   *)
(* one step of the goroutine that performs it.                             *)
(***************************************************************************)
EXTENDS Integers, Sequences, FiniteSets, TLC

VARIABLES
    config,     \* Client.config, as NewClient stored it
    buffer,     \* Client.buffer: [entries, size]
    mu,         \* Buffer.mu: the goroutine that holds it, or NoHolder
    started,    \* Client.started (atomic.Bool)
    closed,     \* Client.closed (atomic.Bool)
    done,       \* Client.done: number of messages in the channel (capacity 1)
    pc,         \* position of every goroutine
    op,         \* per caller goroutine: the call it is in, or made last
    local,      \* per goroutine: the locals of pushLogWithLevel and flush
    lastFlush,  \* worker's local lastFlush
    ticker,     \* worker's time.Ticker: [on, next]
    tickC,      \* ticker.C: number of ticks waiting (capacity 1)
    now,        \* the clock, in seconds
    sent,       \* the push requests handed to the transport, in order
    diag,       \* number of lines written by log.Printf
    hist,       \* history: entries appended, batches drained, counters
    lastCall    \* SpecBuffer: the last Buffer call and what it returned

vars == <<config, buffer, mu, started, closed, done, pc, op, local, lastFlush,
          ticker, tickC, now, sent, diag, hist, lastCall>>

----------------------------------------------------------------------------
(* Bounds of the model *)

\* calls (Start, Stop, submit) that the caller goroutines begin, in total
MaxCalls == 3
\* seconds the clock advances after construction
MaxTime == 2
\* the clock's reading at construction
Epoch == 9
\* SpecRunning: seconds the clock advances after the worker has started
MaxRunTime == 5
\* SpecFair: calls (Start, Stop, submit) that the callers begin, in total
MaxFairCalls == 2
\* the bits of an int64, as the model keeps it
IntBits == 5
\* SpecBuffer: Add calls in total
MaxAdds == 4
\* SpecFlush: entries in the drained batch
MaxBatch == 3

\* caller goroutines
Threads == {"t1", "t2"}
\* the background goroutine started by Start
Worker == "w"
Procs == Threads \cup {Worker}

----------------------------------------------------------------------------
(* pkg.LogLevel *)

LevelDebug == -1
LevelInfo == 0
LevelWarn == 1
LevelError == 2
Levels == {LevelDebug, LevelInfo, LevelWarn, LevelError}

LevelToString(level) ==
    CASE level = LevelDebug -> "debug"
      [] level = LevelInfo -> "info"
      [] level = LevelWarn -> "warn"
      [] level = LevelError -> "error"
      [] OTHER -> "unknown"

\* what the callers submit under Spec and SpecBuffer, as (level, message):
\* Client.Debug("x"), below the minimum level, and Client.Info("a"), at it
\* (Warn and Error differ from Info by the level they pass on; batches of
\* mixed levels are the subject of SpecFlush)
Inputs == { <<LevelDebug, "x">>, <<LevelInfo, "a">> }

----------------------------------------------------------------------------
(* pkg.Buffer *)

DefaultSize == 100

NewBuffer(size) ==
    [entries |-> << >>, size |-> IF size <= 0 THEN DefaultSize ELSE size]

\* Buffer.Add: the buffer after the append
AddAppendFront(b, entry) == [b EXCEPT !.entries = <<entry>> \o @]
BufferAdd(b, entry) == [b EXCEPT !.entries = Append(@, entry)]

\* Buffer.Add: its return value, given the buffer after the append
AddReturnsStrict(b) == Len(b.entries) > b.size
AddReturns(b) == Len(b.entries) >= b.size

\* Buffer.Flush: its return value (nil when nothing is buffered)
FlushReturns(b) == IF Len(b.entries) = 0 THEN << >> ELSE b.entries

\* Buffer.Flush: the buffer it leaves
FlushKeeps(b) == b
FlushLeaves(b) ==
    IF Len(b.entries) = 0 THEN b ELSE [b EXCEPT !.entries = << >>]

\* sizes handed to NewBuffer
RawSizes == {-1, 0, 1, 2, 3}

----------------------------------------------------------------------------
(* loki.NewClient *)

\* the ClientConfig handed to NewClient
RawConfig ==
    [URL |-> "http://loki:3100",
     Labels |-> ("service_name" :> "btlog-demo"),
     BatchSize |-> 2,
     MinWaitTime |-> 0,
     MaxWaitTime |-> 2,
     MinLevel |-> LevelInfo]

\* int64: its least and greatest value, and the value that the result x of
\* an addition is stored as
MinInt == -(2 ^ (IntBits - 1))
MaxInt == 2 ^ (IntBits - 1) - 1
WrapInt(x) == ((x - MinInt) % (2 ^ IntBits)) + MinInt

\* NewClient: the configuration it stores (the URL is not empty)
NewClientConfig(c) ==
    LET c1 == IF c.BatchSize = 0 THEN [c EXCEPT !.BatchSize = 100] ELSE c
        c2 == IF c1.MinWaitTime = 0 THEN [c1 EXCEPT !.MinWaitTime = 1] ELSE c1
        c3 == IF c2.MaxWaitTime = 0 THEN [c2 EXCEPT !.MaxWaitTime = 10] ELSE c2
    IN  IF c3.MaxWaitTime <= c3.MinWaitTime
        THEN [c3 EXCEPT !.MaxWaitTime = WrapInt(c3.MinWaitTime + 1)]
        ELSE c3

----------------------------------------------------------------------------
(* Client.flush: from the drained entries to the push request *)

Digit(d) ==
    CASE d = 0 -> "0" [] d = 1 -> "1" [] d = 2 -> "2" [] d = 3 -> "3"
      [] d = 4 -> "4" [] d = 5 -> "5" [] d = 6 -> "6" [] d = 7 -> "7"
      [] d = 8 -> "8" [] d = 9 -> "9"

\* a string is the sequence of its characters
RECURSIVE FormatNat(_)
FormatNat(n) ==
    IF n < 10 THEN <<Digit(n)>> ELSE Append(FormatNat(n \div 10), Digit(n % 10))

\* strconv.FormatInt(n, 10)
FormatInt(n) == IF n < 0 THEN <<"-">> \o FormatNat(-n) ELSE FormatNat(n)

\* the [2]string appended to a level's group
EntryValue(entry) == <<FormatInt(entry.Timestamp), entry.Message>>

\* levelGroups: the loop over the drained entries
RECURSIVE LevelGroupsFrom(_, _)
LevelGroupsFrom(entries, groups) ==
    IF entries = << >> THEN groups
    ELSE LET entry == Head(entries) IN
         LevelGroupsFrom(Tail(entries),
             [groups EXCEPT ![entry.Level] = Append(@, EntryValue(entry))])

LevelGroups(entries) == LevelGroupsFrom(entries, [l \in Levels |-> << >>])

\* the keys of levelGroups
GroupKeys(groups) == {l \in Levels : groups[l] # << >>}

\* labels: a copy of config.Labels with detected_level set
StreamLabelsLevelOnly(labels, level) ==
    [k \in {"detected_level"} |-> LevelToString(level)]
StreamLabels(labels, level) ==
    [k \in DOMAIN labels \cup {"detected_level"} |->
        IF k = "detected_level" THEN LevelToString(level) ELSE labels[k]]

\* the orders in which `range levelGroups` can visit the keys
RangeOrders(keys) ==
    {f \in [1..Cardinality(keys) -> keys] :
        \A i, j \in 1..Cardinality(keys) : i # j => f[i] # f[j]}

\* the PushRequest built for a non-empty batch, the map visited in `order`
PushRequest(entries, labels, order) ==
    LET groups == LevelGroups(entries) IN
    [Streams |-> [i \in 1..Len(order) |->
        [Stream |-> StreamLabels(labels, order[i]),
         Values |-> groups[order[i]]]]]

\* Client.send: what the transport can answer
StatusNoContent == 204
\* httpClient.Post: a response with a status code, or a transport error
SendOutcomes ==
    { [transport |-> "ok", status |-> 204],
      [transport |-> "ok", status |-> 500],
      [transport |-> "failed", status |-> 0] }
\* Client.send returns a non-nil error
SendError(outcome) ==
    outcome.transport # "ok" \/ outcome.status # StatusNoContent

----------------------------------------------------------------------------
(* The state after NewBuffer, and after NewClient *)

\* Buffer.mu is held by nobody
NoHolder == "free"

NoEntry ==
    [Timestamp |-> 0, Message |-> "", Level |-> LevelInfo, id |-> 0, at |-> 0]
NoLocal == [entry |-> NoEntry, batch |-> << >>, ret |-> "idle"]
NoOp ==
    [name |-> "none", level |-> LevelInfo, message |-> "", afterStop |-> FALSE,
     afterStartedStop |-> FALSE, appended |-> 0, flushes |-> 0,
     len |-> 0, id |-> 0, drains |-> 0, err |-> "nil"]
\* history of the worker's last `case <-ticker.C`: whether it flushed, the
\* seconds since the lastFlush it compared with, and the seconds since the
\* last flush by any goroutine
NoTick == [n |-> 0, flushed |-> FALSE, own |-> 0, any |-> 0]
NoHist ==
    [added |-> << >>, drained |-> << >>, flushes |-> 0, calls |-> 0,
     spawned |-> 0, stopWins |-> 0, stopFlushes |-> 0, doneSends |-> 0,
     doneRecvs |-> 0, lastFlushRan |-> FALSE, stopReturned |-> FALSE,
     startedStopReturned |-> FALSE, pending |-> << >>, tick |-> NoTick,
     lastFlushes |-> 0, timed |-> FALSE]
NoCall == [op |-> "none", ret |-> FALSE, batch |-> << >>, expect |-> << >>]

\* the Client that NewClient returns, its buffer made by NewBuffer(size)
InitWith(raw, size) ==
    /\ config = NewClientConfig(raw)
    /\ buffer = NewBuffer(size)
    /\ mu = NoHolder
    /\ started = FALSE
    /\ closed = FALSE
    /\ done = 0
    /\ pc = [p \in Procs |-> IF p = Worker THEN "w_unborn" ELSE "idle"]
    /\ op = [t \in Threads |-> NoOp]
    /\ local = [p \in Procs |-> NoLocal]
    /\ lastFlush = 0
    /\ ticker = [on |-> FALSE, next |-> 0]
    /\ tickC = 0
    /\ now = Epoch
    /\ sent = << >>
    /\ diag = 0
    /\ hist = NoHist
    /\ lastCall = NoCall

Init == InitWith(RawConfig, NewClientConfig(RawConfig).BatchSize)

clientVars == <<config, mu, started, closed, done, pc, op, local, lastFlush,
                ticker, tickC, now, sent, diag>>

----------------------------------------------------------------------------
(* SpecBuffer: pkg.Buffer under direct calls.  Buffer.mu makes every call  *)
(* one critical section, so a call is one step.                            *)

InitBuffer == \E size \in RawSizes : InitWith(RawConfig, size)

\* the entry that a caller hands to Add: input `in` stamped with the clock;
\* id numbers the entries in the order of their appends (history only)
NewEntry(in, timestamp) ==
    [Timestamp |-> timestamp, Message |-> in[2], Level |-> in[1], id |-> 0,
     at |-> 0]
\* (history only) the clock's reading, kept in the histories of the
\* specifications whose claims are about time
HistNow == IF hist.timed THEN now ELSE 0
\* (history only) at is the clock's reading at the append
Stamp(entry) == [entry EXCEPT !.id = Len(hist.added) + 1, !.at = HistNow]

\* b.Add(entry)
BufAdd(in) ==
    /\ Len(hist.added) < MaxAdds
    /\ LET entry == Stamp(NewEntry(in, now))
           b == BufferAdd(buffer, entry)
       IN  /\ buffer' = b
           /\ lastCall' = [NoCall EXCEPT !.op = "Add", !.ret = AddReturns(b)]
           /\ hist' = [hist EXCEPT !.added = Append(@, entry),
                                   !.pending = Append(@, entry)]
    /\ UNCHANGED clientVars

\* b.Flush()
BufFlush ==
    /\ hist.flushes < MaxAdds
    /\ buffer' = FlushLeaves(buffer)
    /\ lastCall' = [NoCall EXCEPT !.op = "Flush", !.batch = FlushReturns(buffer),
                                  !.expect = hist.pending]
    /\ hist' = [hist EXCEPT !.flushes = @ + 1, !.pending = << >>,
                            !.drained = IF FlushReturns(buffer) = << >> THEN @
                                        ELSE Append(@, [by |-> "caller",
                                                 entries |-> FlushReturns(buffer),
                                                 at |-> HistNow])]
    /\ UNCHANGED clientVars

NextBuffer ==
    \/ \E in \in Inputs : BufAdd(in)
    \/ BufFlush

SpecBuffer == InitBuffer /\ [][NextBuffer]_vars

\* C1: every Flush returns exactly the entries added since the previous Flush
\* (or since construction), in the order of their Adds, and leaves the
\* buffer empty.
C1_FlushReturnsAddedSinceLastFlush ==
    lastCall.op = "Flush" =>
        /\ lastCall.batch = lastCall.expect
        /\ buffer.entries = << >>

\* a Flush has returned three entries added after an earlier Flush
C1_Witness ==
    /\ lastCall.op = "Flush"
    /\ Len(lastCall.batch) = 3
    /\ Len(hist.drained) = 2
    /\ buffer.entries = << >>

\* C2: Add returns true exactly when the number of entries added since the
\* last Flush, this one included, has reached the buffer's threshold.
C2_AddReturnsTrueIffThresholdReached ==
    lastCall.op = "Add" =>
        (lastCall.ret <=> Len(hist.pending) >= buffer.size)

\* threshold 3: the third Add since the last Flush has returned true
C2_Witness ==
    /\ lastCall.op = "Add"
    /\ lastCall.ret
    /\ buffer.size = 3
    /\ Len(hist.pending) = 3

----------------------------------------------------------------------------
(* Spec: loki.Client *)

workerVars == <<lastFlush, ticker, tickC>>

\* goroutine t begins a call
Begins(t) == pc[t] = "idle" /\ hist.calls < MaxCalls

BeginOp(name, in) ==
    [NoOp EXCEPT !.name = name, !.level = in[1], !.message = in[2],
                 !.afterStop = hist.stopReturned,
                 !.afterStartedStop = hist.startedStopReturned]

\* where a goroutine goes when its flush() returns
AfterFlush(p) == local[p].ret

(* Client.Start *)

\* Start goes on to `go c.worker()`, given what started.Swap(true) returned
StartSpawnsAlways(old) == TRUE
StartSpawns(old) == ~old

\* c.started.Swap(true)
StartSwap(t) ==
    /\ Begins(t)
    /\ started' = TRUE
    /\ op' = [op EXCEPT ![t] = BeginOp("Start", <<LevelInfo, "">>)]
    /\ pc' = [pc EXCEPT ![t] = IF StartSpawns(started) THEN "start_go" ELSE "idle"]
    /\ hist' = [hist EXCEPT !.calls = @ + 1]
    /\ UNCHANGED <<config, buffer, mu, closed, done, local, workerVars, now, sent,
                   diag, lastCall>>

\* go c.worker()
StartGo(t) ==
    /\ pc[t] = "start_go"
    /\ pc' = [pc EXCEPT ![t] = "idle",
                        ![Worker] = IF @ = "w_unborn" THEN "w_init" ELSE @]
    /\ hist' = [hist EXCEPT !.spawned = @ + 1]
    /\ UNCHANGED <<config, buffer, mu, started, closed, done, op, local,
                   workerVars, now, sent, diag, lastCall>>

(* Client.Stop *)

\* Stop returns at once, given what started.Load() returned
StopReturnsEarly(isStarted) == ~isStarted

\* Stop goes on to the final flush, given what closed.Swap(true) returned
StopProceedsAlways(old) == TRUE
StopProceeds(old) == ~old

\* !c.started.Load()
StopLoad(t) ==
    /\ Begins(t)
    /\ op' = [op EXCEPT ![t] = BeginOp("Stop", <<LevelInfo, "">>)]
    /\ pc' = [pc EXCEPT ![t] =
                 IF StopReturnsEarly(started) THEN "idle" ELSE "stop_swap"]
    /\ hist' = [hist EXCEPT !.calls = @ + 1,
                            !.stopReturned = @ \/ StopReturnsEarly(started)]
    /\ UNCHANGED <<config, buffer, mu, started, closed, done, local, workerVars,
                   now, sent, diag, lastCall>>

\* c.closed.Swap(true)
StopSwap(t) ==
    /\ pc[t] = "stop_swap"
    /\ closed' = TRUE
    /\ IF StopProceeds(closed)
       THEN /\ pc' = [pc EXCEPT ![t] = "flush_lock"]
            /\ local' = [local EXCEPT ![t].ret = "stop_signal"]
            /\ op' = [op EXCEPT ![t].flushes = @ + 1]
            /\ hist' = [hist EXCEPT !.stopWins = @ + 1, !.stopFlushes = @ + 1]
       ELSE /\ pc' = [pc EXCEPT ![t] = "idle"]
            /\ hist' = [hist EXCEPT !.stopReturned = TRUE,
                                    !.startedStopReturned = TRUE]
            /\ UNCHANGED <<local, op>>
    /\ UNCHANGED <<config, buffer, mu, started, done, workerVars, now, sent,
                   diag, lastCall>>

\* c.done <- true (blocks while the channel is full)
StopSignal(t) ==
    /\ pc[t] = "stop_signal"
    /\ done < 1
    /\ done' = done + 1
    /\ pc' = [pc EXCEPT ![t] = "stop_sleep"]
    /\ hist' = [hist EXCEPT !.doneSends = @ + 1]
    /\ UNCHANGED <<config, buffer, mu, started, closed, op, local, workerVars,
                   now, sent, diag, lastCall>>

\* time.Sleep(100ms), then Stop returns
StopSleep(t) ==
    /\ pc[t] = "stop_sleep"
    /\ pc' = [pc EXCEPT ![t] = "idle"]
    /\ hist' = [hist EXCEPT !.stopReturned = TRUE,
                            !.startedStopReturned = TRUE]
    /\ UNCHANGED <<config, buffer, mu, started, closed, done, op, local,
                   workerVars, now, sent, diag, lastCall>>

(* Client.pushLogWithLevel, called by Debug, Info, Warn and Error *)

\* pushLogWithLevel drops the entry
PushDropsBelowOrAt(level, minLevel) == level <= minLevel
PushDrops(level, minLevel) == level < minLevel

\* pushLogWithLevel returns "client is closed", given closed.Load()
PushIgnoresClosed(isClosed) == FALSE
PushRejectsClosed(isClosed) == isClosed

\* c.closed.Load()
PushClosed(t, in) ==
    /\ Begins(t)
    /\ IF PushRejectsClosed(closed)
       THEN /\ op' = [op EXCEPT ![t] = [BeginOp("push", in) EXCEPT !.err = "closed"]]
            /\ pc' = pc
       ELSE /\ op' = [op EXCEPT ![t] = BeginOp("push", in)]
            /\ pc' = [pc EXCEPT ![t] = "push_started"]
    /\ hist' = [hist EXCEPT !.calls = @ + 1]
    /\ UNCHANGED <<config, buffer, mu, started, closed, done, local, workerVars,
                   now, sent, diag, lastCall>>

\* !c.started.Load(); level < c.config.MinLevel;
\* entry := LogEntry{time.Now().UnixNano(), message, level}
PushStarted(t) ==
    /\ pc[t] = "push_started"
    /\ IF ~started
       THEN /\ op' = [op EXCEPT ![t].err = "not started"]
            /\ pc' = [pc EXCEPT ![t] = "idle"]
            /\ local' = local
       ELSE IF PushDrops(op[t].level, config.MinLevel)
       THEN /\ op' = op
            /\ pc' = [pc EXCEPT ![t] = "idle"]
            /\ local' = local
       ELSE /\ op' = op
            /\ pc' = [pc EXCEPT ![t] = "push_lock"]
            /\ local' = [local EXCEPT ![t].entry =
                            NewEntry(<<op[t].level, op[t].message>>, now)]
    /\ UNCHANGED <<config, buffer, mu, started, closed, done, workerVars, now,
                   sent, diag, hist, lastCall>>

\* b.mu.Lock() in Buffer.Add and in Buffer.Flush: goroutine p goes on to
\* position `to` once nobody holds the mutex
Lock(p, here, to) ==
    /\ pc[p] = here
    /\ mu = NoHolder
    /\ mu' = p
    /\ pc' = [pc EXCEPT ![p] = to]
    /\ UNCHANGED <<config, buffer, started, closed, done, op, local, workerVars,
                   now, sent, diag, hist, lastCall>>

\* the deferred b.mu.Unlock() of Buffer.Add and of Buffer.Flush: the holder
\* of the mutex once the call has returned
UnlockForgotten(holder) == holder
DeferredUnlock(holder) == NoHolder

\* b.mu.Lock() in Buffer.Add
PushLock(t) == Lock(t, "push_lock", "push_add")

\* pushLogWithLevel calls c.flush(), given what Buffer.Add returned
PushNeverFlushes(added) == FALSE
PushFlushes(added) == added

\* if c.buffer.Add(entry) { c.flush() }
PushAdd(t) ==
    /\ pc[t] = "push_add"
    /\ mu = t
    /\ mu' = DeferredUnlock(t)
    /\ LET entry == Stamp(local[t].entry)
           b == BufferAdd(buffer, entry)
       IN  /\ buffer' = b
           /\ hist' = [hist EXCEPT !.added = Append(@, entry)]
           /\ IF PushFlushes(AddReturns(b))
              THEN /\ pc' = [pc EXCEPT ![t] = "flush_lock"]
                   /\ local' = [local EXCEPT ![t] = [NoLocal EXCEPT !.ret = "idle"]]
                   /\ op' = [op EXCEPT ![t].appended = @ + 1, ![t].flushes = @ + 1,
                                       ![t].len = Len(b.entries),
                                       ![t].id = entry.id]
              ELSE /\ pc' = [pc EXCEPT ![t] = "idle"]
                   /\ local' = [local EXCEPT ![t] = NoLocal]
                   /\ op' = [op EXCEPT ![t].appended = @ + 1,
                                       ![t].len = Len(b.entries),
                                       ![t].id = entry.id]
    /\ UNCHANGED <<config, started, closed, done, workerVars, now, sent, diag,
                   lastCall>>

(* Client.flush, run by a caller goroutine or by the worker *)

\* flush returns without a send, given the drained entries
FlushNeverSkips(entries) == FALSE
FlushSkips(entries) == Len(entries) = 0

\* b.mu.Lock() in Buffer.Flush
FlushLock(p) == Lock(p, "flush_lock", "flush_drain")

\* entries := c.buffer.Flush(); if len(entries) == 0 { return }
FlushDrain(p) ==
    /\ pc[p] = "flush_drain"
    /\ mu = p
    /\ mu' = DeferredUnlock(p)
    /\ LET entries == FlushReturns(buffer) IN
       /\ buffer' = FlushLeaves(buffer)
       /\ hist' = [hist EXCEPT !.drained = IF entries = << >> THEN @
                                           ELSE Append(@, [by |-> p,
                                                    entries |-> entries,
                                                    at |-> HistNow]),
                               !.lastFlushes =
                                   IF p = Worker /\ hist.doneRecvs > 0
                                   THEN @ + 1 ELSE @]
       /\ IF FlushSkips(entries)
          THEN /\ pc' = [pc EXCEPT ![p] = AfterFlush(p)]
               /\ local' = [local EXCEPT ![p] = NoLocal]
          ELSE /\ pc' = [pc EXCEPT ![p] = "flush_send"]
               /\ local' = [local EXCEPT ![p].batch = entries]
    /\ op' = IF p \in Threads THEN [op EXCEPT ![p].drains = @ + 1] ELSE op
    /\ UNCHANGED <<config, started, closed, done, workerVars, now, sent,
                   diag, lastCall>>

\* where a goroutine goes when c.send(req) has returned: on an error flush
\* logs and returns like after a success
AfterSendEndsWorker(p, outcome) ==
    IF p = Worker /\ SendError(outcome) THEN "w_return" ELSE AfterFlush(p)
AfterSend(p, outcome) == AfterFlush(p)

\* the buffer when c.send(req) has returned: flush does not touch it again,
\* whatever the outcome
SendRequeues(b, batch, outcome) ==
    IF SendError(outcome) THEN [b EXCEPT !.entries = batch \o @] ELSE b
SendLeaves(b, batch, outcome) == b

\* the request is built and c.send(req) is called; a failure is logged
FlushSend(p) ==
    /\ pc[p] = "flush_send"
    /\ \E order \in RangeOrders(GroupKeys(LevelGroups(local[p].batch))),
          outcome \in SendOutcomes :
          /\ sent' = Append(sent,
                 [req |-> PushRequest(local[p].batch, config.Labels, order),
                  batch |-> local[p].batch,
                  ok |-> ~SendError(outcome),
                  at |-> HistNow])
          /\ diag' = IF SendError(outcome) THEN diag + 1 ELSE diag
          /\ pc' = [pc EXCEPT ![p] = AfterSend(p, outcome)]
          /\ buffer' = SendLeaves(buffer, local[p].batch, outcome)
    /\ local' = [local EXCEPT ![p] = NoLocal]
    /\ UNCHANGED <<config, mu, started, closed, done, op, workerVars, now,
                   hist, lastCall>>

(* Client.worker *)

\* the period of the worker's ticker and of its periodic flush, in seconds
MaxWait == config.MaxWaitTime

\* time.Since(lastFlush) > 0: the clock of the model counts whole seconds,
\* time.Since counts nanoseconds, so within one second of lastFlush the
\* comparison can go either way
SincePositive(elapsed) == IF elapsed > 0 THEN {TRUE} ELSE {TRUE, FALSE}

\* time.Since(lastFlush) >= time.Second * MaxWaitTime
TickFlushesLate(elapsed, maxWait) == elapsed > maxWait
TickFlushes(elapsed, maxWait) == elapsed >= maxWait

\* ticker := time.NewTicker(...); lastFlush := time.Now()
WorkerInit ==
    /\ pc[Worker] = "w_init"
    /\ ticker' = [on |-> TRUE, next |-> now + MaxWait]
    /\ lastFlush' = now
    /\ pc' = [pc EXCEPT ![Worker] = "w_select"]
    /\ UNCHANGED <<config, buffer, mu, started, closed, done, op, local, tickC,
                   now, sent, diag, hist, lastCall>>

\* where the worker goes at the end of `case <-c.done`: it returns
DoneLoops == "w_select"
DoneReturns == "w_return"

\* case <-c.done: a last flush if time has passed, then return
\* (the deferred ticker.Stop() runs when the worker returns)
WorkerDone ==
    /\ pc[Worker] = "w_select"
    /\ done > 0
    /\ done' = done - 1
    /\ \E positive \in SincePositive(now - lastFlush) :
          /\ hist' = [hist EXCEPT !.doneRecvs = @ + 1,
                                  !.lastFlushRan = positive]
          /\ IF positive
             THEN /\ pc' = [pc EXCEPT ![Worker] = "flush_lock"]
                  /\ local' = [local EXCEPT ![Worker].ret = DoneReturns]
             ELSE /\ pc' = [pc EXCEPT ![Worker] = DoneReturns]
                  /\ local' = local
    /\ UNCHANGED <<config, buffer, mu, started, closed, op, workerVars, now, sent,
                   diag, lastCall>>

\* return from worker: the deferred ticker.Stop()
WorkerReturn ==
    /\ pc[Worker] = "w_return"
    /\ pc' = [pc EXCEPT ![Worker] = "w_exited"]
    /\ ticker' = [ticker EXCEPT !.on = FALSE]
    /\ UNCHANGED <<config, buffer, mu, started, closed, done, op, local, lastFlush,
                   tickC, now, sent, diag, hist, lastCall>>

\* (history only) when a flush last ran, by whatever goroutine: the latest of
\* the worker's lastFlush and the last drain of a non-empty buffer
LastFlushByAny ==
    IF hist.drained # << >> /\ hist.drained[Len(hist.drained)].at > lastFlush
    THEN hist.drained[Len(hist.drained)].at
    ELSE lastFlush

\* case <-ticker.C: flush if MaxWaitTime has passed since lastFlush
WorkerTick ==
    /\ pc[Worker] = "w_select"
    /\ tickC > 0
    /\ tickC' = tickC - 1
    /\ IF TickFlushes(now - lastFlush, MaxWait)
       THEN /\ pc' = [pc EXCEPT ![Worker] = "flush_lock"]
            /\ local' = [local EXCEPT ![Worker].ret = "w_setlast"]
       ELSE /\ pc' = pc
            /\ local' = local
    /\ hist' = [hist EXCEPT !.tick =
                    [n |-> 1,
                     flushed |-> TickFlushes(now - lastFlush, MaxWait),
                     own |-> IF hist.timed THEN now - lastFlush ELSE 0,
                     any |-> IF hist.timed THEN now - LastFlushByAny ELSE 0]]
    /\ UNCHANGED <<config, buffer, mu, started, closed, done, op, lastFlush,
                   ticker, now, sent, diag, lastCall>>

\* lastFlush = time.Now()
WorkerSetLast ==
    /\ pc[Worker] = "w_setlast"
    /\ lastFlush' = now
    /\ pc' = [pc EXCEPT ![Worker] = "w_select"]
    /\ UNCHANGED <<config, buffer, mu, started, closed, done, op, local, ticker,
                   tickC, now, sent, diag, hist, lastCall>>

(* The clock and the runtime's ticker *)

\* a second passes; a running ticker whose time has come puts a tick in
\* ticker.C, or drops it when the channel is full
ClockTo(maxTime) ==
    /\ now - Epoch < maxTime
    /\ now' = now + 1
    /\ IF ticker.on /\ now + 1 >= ticker.next
       THEN /\ tickC' = 1
            /\ ticker' = [ticker EXCEPT !.next = @ + MaxWait]
       ELSE UNCHANGED <<tickC, ticker>>
    /\ UNCHANGED <<config, buffer, mu, started, closed, done, pc, op, local,
                   lastFlush, sent, diag, hist, lastCall>>

Clock == ClockTo(MaxTime)

Next ==
    \/ \E t \in Threads : StartSwap(t)
    \/ \E t \in Threads : StartGo(t)
    \/ \E t \in Threads : StopLoad(t)
    \/ \E t \in Threads : StopSwap(t)
    \/ \E t \in Threads : StopSignal(t)
    \/ \E t \in Threads : StopSleep(t)
    \/ \E t \in Threads, in \in Inputs : PushClosed(t, in)
    \/ \E t \in Threads : PushStarted(t)
    \/ \E t \in Threads : PushLock(t)
    \/ \E t \in Threads : PushAdd(t)
    \/ \E p \in Procs : FlushLock(p)
    \/ \E p \in Procs : FlushDrain(p)
    \/ \E p \in Procs : FlushSend(p)
    \/ WorkerInit
    \/ WorkerDone
    \/ WorkerReturn
    \/ WorkerTick
    \/ WorkerSetLast
    \/ Clock

Spec == Init /\ [][Next]_vars

----------------------------------------------------------------------------
(* SpecFair: Spec under fair scheduling.  A goroutine that can take a step *)
(* of the call it is in takes it in the end, a send returns, and the       *)
(* worker, once started, is scheduled; callers need not begin new calls    *)
(* and the clock need not advance.                                         *)

\* a step of the call that caller goroutine t is in
Proceeds(t) ==
    \/ StartGo(t)
    \/ StopSwap(t)
    \/ StopSignal(t)
    \/ StopSleep(t)
    \/ PushStarted(t)
    \/ PushLock(t)
    \/ PushAdd(t)
    \/ FlushLock(t)
    \/ FlushDrain(t)
    \/ FlushSend(t)

\* a step of the worker
WorkerProceeds ==
    \/ WorkerInit
    \/ WorkerDone
    \/ WorkerReturn
    \/ WorkerTick
    \/ WorkerSetLast
    \/ FlushLock(Worker)
    \/ FlushDrain(Worker)
    \/ FlushSend(Worker)

Fairness ==
    /\ \A t \in Threads : WF_vars(Proceeds(t))
    /\ WF_vars(WorkerProceeds)

\* the callers begin MaxFairCalls calls in total
FairBegins == hist.calls < MaxFairCalls

\* the steps of Spec
NextFair ==
    \/ \E t \in Threads : FairBegins /\ StartSwap(t)
    \/ \E t \in Threads : FairBegins /\ StopLoad(t)
    \/ \E t \in Threads, in \in Inputs : FairBegins /\ PushClosed(t, in)
    \/ \E t \in Threads : Proceeds(t)
    \/ WorkerProceeds
    \/ Clock

SpecFair == Init /\ [][NextFair]_vars /\ Fairness

----------------------------------------------------------------------------
(* SpecRunning: the started client at work.  Start has returned and the    *)
(* worker has made its ticker, all within the second of construction; the  *)
(* callers submit while the clock runs on for MaxRunTime seconds, and the  *)
(* histories record times.  Seconds pass only while every goroutine waits: *)
(* a send can take seconds, the statements around it take none.            *)

InitRunning ==
    /\ config = NewClientConfig(RawConfig)
    /\ buffer = NewBuffer(config.BatchSize)
    /\ mu = NoHolder
    /\ started = TRUE
    /\ closed = FALSE
    /\ done = 0
    /\ pc = [p \in Procs |-> IF p = Worker THEN "w_select" ELSE "idle"]
    /\ op = [t \in Threads |-> NoOp]
    /\ local = [p \in Procs |-> NoLocal]
    /\ lastFlush = Epoch
    /\ ticker = [on |-> TRUE, next |-> Epoch + MaxWait]
    /\ tickC = 0
    /\ now = Epoch
    /\ sent = << >>
    /\ diag = 0
    /\ hist = [NoHist EXCEPT !.spawned = 1, !.timed = TRUE]
    /\ lastCall = NoCall

\* goroutine p is where seconds can pass: between two calls, inside
\* c.send(req), or blocked in the worker's select with nothing to receive
Waiting(p) ==
    \/ pc[p] \in {"idle", "flush_send"}
    \/ pc[p] = "w_select" /\ tickC = 0 /\ done = 0

\* the clock of SpecRunning: the statements between those points take no
\* time on a clock that counts seconds
RunClock ==
    /\ \A p \in Procs : Waiting(p)
    /\ ClockTo(MaxRunTime)

\* the caller goroutines that submit under SpecRunning
Submitters == {"t1"}

NextRunning ==
    \/ \E t \in Submitters, in \in Inputs : PushClosed(t, in)
    \/ \E t \in Submitters : PushStarted(t)
    \/ \E t \in Submitters : PushLock(t)
    \/ \E t \in Submitters : PushAdd(t)
    \/ \E p \in Procs : FlushLock(p)
    \/ \E p \in Procs : FlushDrain(p)
    \/ \E p \in Procs : FlushSend(p)
    \/ WorkerTick
    \/ WorkerSetLast
    \/ RunClock

SpecRunning == InitRunning /\ [][NextRunning]_vars

----------------------------------------------------------------------------
(* Claims about loki.Client, checked under Spec *)

\* goroutine t is in a submit, or its last call was one
InPush(t) == op[t].name = "push"
\* the call of goroutine t has returned
Returned(t) == pc[t] = "idle"
\* the submit of t returned the error err, appended nothing and ran no flush
Rejected(t, err) ==
    /\ Returned(t)
    /\ op[t].err = err
    /\ op[t].appended = 0
    /\ op[t].flushes = 0
\* no goroutine is inside a call
Quiet == \A t \in Threads : Returned(t)

\* C3, as stated: a submit made while Start has not been called returns the
\* not-started error, a submit invoked after a Stop call has returned
\* returns the closed error, and neither appends nor flushes.
C3_AsStated ==
    \A t \in Threads : InPush(t) =>
        /\ op[t].afterStop =>
              \/ pc[t] = "push_started"
              \/ Rejected(t, "closed")
              \/ Rejected(t, "not started")
        /\ ~started => pc[t] = "push_started" \/ Rejected(t, "not started")

\* C3, amended: a submit made while Start has not been called returns the
\* not-started error, a submit invoked after a Stop call on a started
\* client has returned returns the closed error, and neither appends to the
\* buffer nor runs a flush, whatever its level.
C3_RejectedOutsideLifecycle ==
    \A t \in Threads : InPush(t) =>
        /\ op[t].afterStartedStop => Rejected(t, "closed")
        /\ ~started => pc[t] = "push_started" \/ Rejected(t, "not started")

\* an Info submit invoked after Stop returned on a started client was
\* rejected, the buffer still holding what it held
C3_Witness ==
    \E t \in Threads :
        /\ InPush(t)
        /\ op[t].afterStartedStop
        /\ op[t].level = LevelInfo
        /\ Rejected(t, "closed")

\* C4: a submit that passed the lifecycle checks returns no error; below
\* the minimum level it appends nothing and runs no flush, at or above it
\* appends exactly one entry; no entry below the minimum level is ever
\* appended to the buffer.
C4_BelowMinLevelNeverAppended ==
    /\ \A t \in Threads : InPush(t) =>
          /\ Returned(t) /\ op[t].err = "nil" =>
                IF op[t].level < config.MinLevel
                THEN op[t].appended = 0 /\ op[t].flushes = 0
                ELSE op[t].appended = 1
          /\ pc[t] \in {"push_lock", "push_add", "flush_lock", "flush_drain",
                       "flush_send"} =>
                op[t].level >= config.MinLevel
    /\ \A i \in 1..Len(hist.added) : hist.added[i].Level >= config.MinLevel
    /\ \A i \in 1..Len(buffer.entries) :
          buffer.entries[i].Level >= config.MinLevel

\* one Debug submit was dropped without error and one Info submit appended
\* its entry, both on the started client
C4_Witness ==
    \E t, u \in Threads :
        /\ InPush(t) /\ Returned(t) /\ op[t].err = "nil"
        /\ op[t].level = LevelDebug /\ op[t].appended = 0
        /\ InPush(u) /\ Returned(u) /\ op[u].err = "nil"
        /\ op[u].level = LevelInfo /\ op[u].appended = 1
        /\ Len(hist.added) = 1

\* C5: however many Start calls are made, one after the other or at the
\* same time, exactly one worker is ever spawned.
C5_OneWorker ==
    /\ hist.spawned <= 1
    /\ hist.spawned = 1 <=> pc[Worker] # "w_unborn"
    /\ started /\ (\A t \in Threads : pc[t] # "start_go") => hist.spawned = 1
    /\ ~started => hist.spawned = 0

\* two Start calls have returned and one worker runs
C5_Witness ==
    /\ \A t \in Threads : op[t].name = "Start" /\ Returned(t)
    /\ hist.spawned = 1
    /\ pc[Worker] = "w_select"

\* goroutine t is inside Stop
InStop(t) == op[t].name = "Stop" /\ ~Returned(t)

\* C6: a Stop on a client that was not started closes nothing and signals
\* nothing; among all the Stop calls on a started client exactly one runs
\* the final flush and sends the stop signal.
C6_StopIdempotent ==
    /\ closed => started
    /\ ~started => done = 0 /\ hist.stopWins = 0
    /\ hist.stopWins <= 1 /\ hist.stopFlushes <= 1 /\ hist.doneSends <= 1
    /\ closed <=> hist.stopWins = 1
    /\ closed /\ (\A t \in Threads : ~InStop(t)) =>
          hist.stopFlushes = 1 /\ hist.doneSends = 1

\* two Stop calls on the started client have returned; one of them flushed
\* and signalled
C6_Witness ==
    /\ \A t \in Threads : op[t].name = "Stop" /\ Returned(t)
    /\ closed
    /\ hist.stopFlushes = 1
    /\ hist.doneSends = 1

\* C7: once Stop has returned, the worker has run its last flush and
\* exited, and no call is in progress, every entry that a submit appended
\* has been drained by some flush: the buffer is empty.
C7_StopLeavesNothingBuffered ==
    /\ hist.startedStopReturned
    /\ pc[Worker] = "w_exited"
    /\ hist.lastFlushRan
    /\ Quiet
    => buffer.entries = << >>

\* the ids of the entries of a batch
Ids(entries) == {entries[i].id : i \in 1..Len(entries)}
\* the number of (timestamp, message) pairs in a request
RECURSIVE CountValues(_)
CountValues(streams) ==
    IF Len(streams) = 0 THEN 0
    ELSE Len(Head(streams).Values) + CountValues(Tail(streams))

\* C8: no entry is drained twice or sent twice: the drained batches are
\* pairwise disjoint and hold no entry twice, every push request carries
\* one drained batch, no two requests carry the same batch, and a batch
\* still to be sent has not been sent.
C8_ShippedAtMostOnce ==
    /\ \A i \in 1..Len(hist.drained) :
          /\ Cardinality(Ids(hist.drained[i].entries)) =
                Len(hist.drained[i].entries)
          /\ \A j \in 1..Len(hist.drained) : i # j =>
                Ids(hist.drained[i].entries) \cap
                    Ids(hist.drained[j].entries) = {}
    /\ \A i \in 1..Len(sent) :
          /\ \E k \in 1..Len(hist.drained) :
                hist.drained[k].entries = sent[i].batch
          /\ CountValues(sent[i].req.Streams) = Len(sent[i].batch)
          /\ \A j \in 1..Len(sent) : i # j =>
                Ids(sent[i].batch) \cap Ids(sent[j].batch) = {}
          /\ \A p \in Procs : pc[p] = "flush_send" =>
                Ids(sent[i].batch) \cap Ids(local[p].batch) = {}
    /\ \A p, q \in Procs : p # q /\ pc[p] = "flush_send" /\ pc[q] = "flush_send"
          => Ids(local[p].batch) \cap Ids(local[q].batch) = {}

\* a submit reached the threshold, the worker's periodic flush drained and
\* sent both entries first, and the submit's own flush sent nothing
C8_Witness ==
    /\ \E t \in Threads :
          InPush(t) /\ Returned(t) /\ op[t].flushes = 1
    /\ Len(hist.drained) = 1
    /\ hist.drained[1].by = Worker
    /\ Len(hist.drained[1].entries) = 2
    /\ Len(sent) = 1
    /\ buffer.entries = << >>

\* C10: a flush that drains nothing sends nothing: there are never more
\* push requests than flushes that drained an entry, and no request is
\* built from an empty batch.
C10_EmptyFlushSendsNothing ==
    /\ Len(sent) <= Len(hist.drained)
    /\ \A i \in 1..Len(sent) :
          sent[i].batch # << >> /\ Len(sent[i].req.Streams) > 0
    /\ \A p \in Procs : pc[p] = "flush_send" => local[p].batch # << >>

\* Stop's final flush found the buffer empty and returned; nothing was sent
C10_Witness ==
    /\ \E t \in Threads : pc[t] = "stop_signal"
    /\ hist.drained = << >>
    /\ sent = << >>
    /\ hist.added = << >>

----------------------------------------------------------------------------
(* SpecFlush: Client.flush from a drained batch to the push request.  The  *)
(* client runs, its worker is in a periodic flush and has drained a batch; *)
(* the batch and the configured labels are drawn from bounded sets.        *)

\* config.Labels; the second sets detected_level itself
LabelSets ==
    { ("service_name" :> "btlog-demo"),
      ("service_name" :> "btlog-demo") @@ ("detected_level" :> "custom") }

\* the entries a batch is made of, but for their ids
EntryChoices ==
    { [Timestamp |-> Epoch, Message |-> "a", Level |-> l] : l \in Levels }
    \cup { [Timestamp |-> Epoch + 1, Message |-> "b", Level |-> l] : l \in Levels }

\* the batches of n entries, numbered in the order of their appends
Batches(n) ==
    { [i \in 1..n |-> [Timestamp |-> f[i].Timestamp, Message |-> f[i].Message,
                       Level |-> f[i].Level, id |-> i,
                       at |-> f[i].Timestamp]] :
        f \in [1..n -> EntryChoices] }

InitFlush ==
    \E labels \in LabelSets, n \in 1..MaxBatch : \E batch \in Batches(n) :
        /\ config = [NewClientConfig(RawConfig) EXCEPT !.Labels = labels]
        /\ buffer = NewBuffer(config.BatchSize)
        /\ mu = NoHolder
        /\ started = TRUE
        /\ closed = FALSE
        /\ done = 0
        /\ pc = [p \in Procs |-> IF p = Worker THEN "flush_send" ELSE "idle"]
        /\ op = [t \in Threads |-> NoOp]
        /\ local = [p \in Procs |->
              IF p = Worker
              THEN [NoLocal EXCEPT !.batch = batch, !.ret = "w_setlast"]
              ELSE NoLocal]
        /\ lastFlush = Epoch
        /\ ticker = [on |-> TRUE, next |-> Epoch + 2 * MaxWait]
        /\ tickC = 0
        /\ now = Epoch + MaxWait
        /\ sent = << >>
        /\ diag = 0
        /\ hist = [NoHist EXCEPT !.added = batch, !.spawned = 1,
                      !.drained = <<[by |-> Worker, entries |-> batch,
                                     at |-> Epoch + MaxWait]>>]
        /\ lastCall = NoCall

NextFlush ==
    \/ FlushSend(Worker)
    \/ WorkerSetLast

SpecFlush == InitFlush /\ [][NextFlush]_vars

\* the number that a string of decimal digits denotes
DigitValue(c) == CHOOSE d \in 0..9 : Digit(d) = c
RECURSIVE DecimalValue(_)
DecimalValue(str) ==
    IF Len(str) = 0 THEN 0
    ELSE 10 * DecimalValue(SubSeq(str, 1, Len(str) - 1)) + DigitValue(str[Len(str)])

\* the entries of a batch that have the level, in the order of the batch
OfLevel(entries, level) == SelectSeq(entries, LAMBDA e : e.Level = level)
\* the levels of the entries of a batch
LevelsIn(entries) == {entries[i].Level : i \in 1..Len(entries)}
\* the canonical names of the levels
LevelName ==
    [l \in Levels |-> <<"debug", "info", "warn", "error">>[l - LevelDebug + 1]]

\* stream is the stream of the batch's entries of the level, under labels
IsStreamOf(stream, entries, level, labels) ==
    LET group == OfLevel(entries, level) IN
    /\ DOMAIN stream.Stream = DOMAIN labels \cup {"detected_level"}
    /\ stream.Stream["detected_level"] = LevelName[level]
    /\ \A k \in DOMAIN labels \ {"detected_level"} : stream.Stream[k] = labels[k]
    /\ Len(stream.Values) = Len(group)
    /\ \A i \in 1..Len(group) :
          /\ Len(stream.Values[i][1]) > 0
          /\ stream.Values[i][1][1] = "0" => Len(stream.Values[i][1]) = 1
          /\ DecimalValue(stream.Values[i][1]) = group[i].Timestamp
          /\ stream.Values[i][2] = group[i].Message

\* C9: the push request built from a drained batch has exactly one stream
\* for each level present in the batch; the stream of a level holds the
\* batch's entries of that level, in the order of the batch, each as the
\* pair of its timestamp in decimal and its message, under the configured
\* labels with detected_level set to the name of the level; so every
\* entry of the batch is in exactly one stream.
C9_OneStreamPerLevel ==
    \A r \in 1..Len(sent) :
        LET streams == sent[r].req.Streams
            entries == sent[r].batch
        IN  /\ Len(streams) = Cardinality(LevelsIn(entries))
            /\ \A l \in LevelsIn(entries) :
                  \E i \in 1..Len(streams) :
                      IsStreamOf(streams[i], entries, l, config.Labels)
            /\ CountValues(streams) = Len(entries)

\* the batch (Info a, Error b, Info b) was sent as an Info stream of two
\* values and an Error stream of one
C9_Witness ==
    /\ Len(sent) = 1
    /\ Len(sent[1].batch) = 3
    /\ sent[1].batch[1].Level = LevelInfo
    /\ sent[1].batch[2].Level = LevelError
    /\ sent[1].batch[3].Level = LevelInfo
    /\ sent[1].batch[1].Timestamp < sent[1].batch[3].Timestamp
    /\ Len(sent[1].req.Streams) = 2
    /\ \E i \in 1..2 :
          /\ sent[1].req.Streams[i].Stream["detected_level"] = "info"
          /\ Len(sent[1].req.Streams[i].Values) = 2

----------------------------------------------------------------------------
(* SpecConfig: loki.NewClient on every pair of wait times.  config holds   *)
(* the ClientConfig handed to NewClient, then the one that the client      *)
(* keeps.                                                                  *)

InitConfig ==
    \E min \in MinInt..MaxInt, max \in MinInt..MaxInt :
        /\ config = [RawConfig EXCEPT !.MinWaitTime = min, !.MaxWaitTime = max]
        /\ buffer = NewBuffer(RawConfig.BatchSize)
        /\ mu = NoHolder
        /\ started = FALSE
        /\ closed = FALSE
        /\ done = 0
        /\ pc = [p \in Procs |-> IF p = Worker THEN "w_unborn" ELSE "idle"]
        /\ op = [t \in Threads |-> NoOp]
        /\ local = [p \in Procs |-> NoLocal]
        /\ lastFlush = 0
        /\ ticker = [on |-> FALSE, next |-> 0]
        /\ tickC = 0
        /\ now = Epoch
        /\ sent = << >>
        /\ diag = 0
        /\ hist = NoHist
        /\ lastCall = NoCall

\* client, err := loki.NewClient(config)
NewClient ==
    /\ lastCall.op = "none"
    /\ config' = NewClientConfig(config)
    /\ lastCall' = [NoCall EXCEPT !.op = "NewClient",
                       !.expect = <<config.MinWaitTime, config.MaxWaitTime>>]
    /\ UNCHANGED <<buffer, mu, started, closed, done, pc, op, local, lastFlush,
                   ticker, tickC, now, sent, diag, hist>>

\* time.NewTicker(d) panics on a period that is not positive
NewTickerPanics(period) == period <= 0

\* client.Start(), then in the worker
\* ticker := time.NewTicker(time.Second * time.Duration(MaxWaitTime)):
\* ret tells whether the worker has its ticker
StartWorker ==
    /\ lastCall.op = "NewClient"
    /\ lastCall' = [lastCall EXCEPT !.op = "NewTicker",
                                    !.ret = ~NewTickerPanics(MaxWait)]
    /\ UNCHANGED <<config, buffer, mu, started, closed, done, pc, op, local,
                   lastFlush, ticker, tickC, now, sent, diag, hist>>

NextConfig ==
    \/ NewClient
    \/ StartWorker

SpecConfig == InitConfig /\ [][NextConfig]_vars

\* C15: for every ClientConfig with a non-empty URL and every pair of
\* 64-bit signed MinWaitTime and MaxWaitTime, the client that NewClient
\* builds has MaxWaitTime strictly greater than MinWaitTime: a zero minimum
\* has become 1, a zero maximum 10, and a maximum that does not exceed the
\* minimum has become the minimum plus one.
C15_MaxWaitExceedsMinWait ==
    lastCall.op = "NewClient" =>
        LET min == IF lastCall.expect[1] = 0 THEN 1 ELSE lastCall.expect[1]
            max == IF lastCall.expect[2] = 0 THEN 10 ELSE lastCall.expect[2]
        IN  /\ config.MinWaitTime = min
            /\ config.MaxWaitTime = IF max <= min THEN min + 1 ELSE max
            /\ config.MaxWaitTime > config.MinWaitTime

\* C22: for every ClientConfig that NewClient accepts (a non-empty URL, any
\* MinWaitTime and MaxWaitTime), the period with which the worker makes its
\* ticker is strictly positive, MaxWaitTime being at least one second, so
\* that starting the worker never fails.
C22_TickerPeriodPositive ==
    lastCall.op = "NewTicker" => config.MaxWaitTime >= 1 /\ lastCall.ret

----------------------------------------------------------------------------
(* Claims about the running client, checked under SpecRunning *)

\* the indices of the sends that failed
FailedSends == { i \in 1..Len(sent) : ~sent[i].ok }
\* goroutine p drained the batch of send i
SentBy(i, p) ==
    \E k \in 1..Len(hist.drained) :
        /\ hist.drained[k].entries = sent[i].batch
        /\ hist.drained[k].by = p
\* the worker is in its loop
WorkerLoops ==
    pc[Worker] \in {"w_select", "flush_lock", "flush_drain", "flush_send",
                    "w_setlast"}

Drained(id) ==
    \E k \in 1..Len(hist.drained) : id \in Ids(hist.drained[k].entries)

\* C12: on a started client, a submit whose append brings the buffer's
\* length to the batch threshold or above performs a flush before it
\* returns, so that its entry has left the buffer by then; a submit whose
\* append leaves the length below the threshold triggers no flush, and
\* neither does a submit that is dropped for its level.
C12_ThresholdFlushIsSynchronous ==
    \A t \in Threads : InPush(t) =>
        /\ op[t].appended = 1 /\ op[t].len >= buffer.size =>
              /\ op[t].flushes = 1
              /\ Returned(t) =>
                    /\ op[t].drains = 1
                    /\ Drained(op[t].id)
                    /\ op[t].id \notin Ids(buffer.entries)
        /\ op[t].appended = 1 /\ op[t].len < buffer.size =>
              /\ Returned(t)
              /\ op[t].flushes = 0
              /\ op[t].drains = 0
        /\ op[t].appended = 0 => op[t].flushes = 0 /\ op[t].drains = 0

\* threshold 2, minimum level Info: of three submits the Debug one was
\* dropped, the first Info one left one entry buffered, and the second
\* Info one has returned after its flush sent one request with one stream,
\* tagged info, that has both values
C12_Witness ==
    /\ buffer.size = 2
    /\ config.MinLevel = LevelInfo
    /\ hist.calls = 3
    /\ Len(hist.added) = 2
    /\ \E t \in Threads :
          /\ InPush(t)
          /\ Returned(t)
          /\ op[t].len = 2
          /\ op[t].drains = 1
          /\ hist.drained = <<[by |-> t, entries |-> sent[1].batch,
                               at |-> hist.added[2].at]>>
    /\ Len(sent) = 1
    /\ Len(sent[1].req.Streams) = 1
    /\ sent[1].req.Streams[1].Stream["detected_level"] = "info"
    /\ Len(sent[1].req.Streams[1].Values) = 2
    /\ buffer.entries = << >>

\* when the batch of send i was drained
DrainedAt(batch) ==
    LET k == CHOOSE k \in 1..Len(hist.drained) : hist.drained[k].entries = batch
    IN  hist.drained[k].at
\* every send, finished or under way, has taken less than MaxWaitTime
SendsQuick ==
    /\ \A i \in 1..Len(sent) : sent[i].at - DrainedAt(sent[i].batch) < MaxWait
    /\ \A p \in Procs :
          pc[p] = "flush_send" => now - DrainedAt(local[p].batch) < MaxWait

\* C13: MaxWaitTime is the maximum time an entry waits: while the client is
\* started and not closed, every entry appended at time t is drained by
\* some flush no later than t + MaxWaitTime; no entry has been in the
\* buffer for longer, and none was drained later than that.  (Seconds pass
\* only in a send and while the goroutines wait, and every send takes
\* less than MaxWaitTime.)
C13_DrainedWithinMaxWait ==
    SendsQuick /\ started /\ ~closed =>
        /\ \A i \in 1..Len(buffer.entries) :
              now - buffer.entries[i].at <= MaxWait
        /\ \A k \in 1..Len(hist.drained) :
              \A i \in 1..Len(hist.drained[k].entries) :
                  hist.drained[k].at - hist.drained[k].entries[i].at <= MaxWait

\* C14: MinWaitTime is the minimum wait between two sends: any two push
\* requests of one client are handed to the transport at least MinWaitTime
\* seconds apart.
C14_SendsMinWaitApart ==
    \A i, j \in 1..Len(sent) :
        i < j => sent[j].at - sent[i].at >= config.MinWaitTime

\* C17, as stated: on a timer tick the worker flushes if and only if at
\* least MaxWaitTime seconds have passed since the last flush, where a
\* threshold-triggered flush counts as a flush: a tick that comes earlier
\* than MaxWaitTime after the last flush performs none.
C17_AsStated ==
    hist.tick.n > 0 => (hist.tick.flushed <=> hist.tick.any >= MaxWait)

\* C17, amended: on a timer tick the worker flushes if and only if at least
\* MaxWaitTime seconds have passed since the time it recorded at the end
\* of its own last periodic flush, or at its start when it has run none;
\* flushes by other goroutines do not count, and the worker is in a
\* periodic flush only after such a tick.
C17_TickFlushesByOwnLastFlush ==
    /\ hist.tick.n > 0 => (hist.tick.flushed <=> hist.tick.own >= MaxWait)
    /\ pc[Worker] \in {"flush_lock", "flush_drain", "flush_send", "w_setlast"} =>
          hist.tick.flushed

\* the worker has taken a tick one second after a threshold-triggered
\* flush, two seconds after its start, and is in its periodic flush
C17_Witness ==
    /\ hist.tick.n > 0
    /\ hist.tick.flushed
    /\ hist.tick.own = MaxWait
    /\ hist.tick.any = 1
    /\ Len(hist.drained) = 1
    /\ hist.drained[1].by \in Threads
    /\ pc[Worker] = "flush_lock"

----------------------------------------------------------------------------
(* Further claims about loki.Client, checked under Spec *)

InBuffer(p) == pc[p] \in {"push_add", "flush_drain"}

\* C19: no network I/O happens while the buffer's lock is held: a goroutine
\* inside send does not hold Buffer.mu, which is held only by a goroutine
\* inside Buffer.Add or Buffer.Flush, so that while one flush is sending a
\* concurrent submit can lock the buffer and complete its append.
C19_NoSendUnderLock ==
    /\ \A p \in Procs : pc[p] = "flush_send" => mu # p
    /\ \A p \in Procs : InBuffer(p) <=> mu = p
    /\ mu \in Procs \cup {NoHolder}
    /\ (\E p \in Procs : pc[p] = "flush_send") =>
          \A t \in Threads :
              pc[t] = "push_lock" =>
                  \/ ENABLED PushLock(t)
                  \/ \E q \in Procs : mu = q /\ pc[q] # "flush_send"

\* while the worker is inside send, a caller holds the lock in Buffer.Add
C19_Witness ==
    /\ pc[Worker] = "flush_send"
    /\ \E t \in Threads : pc[t] = "push_add" /\ mu = t

\* the submit of goroutine t saw Buffer.Add return true and has not yet
\* run the Buffer.Flush of its flush
FlushPending(t) ==
    /\ InPush(t)
    /\ op[t].flushes = 1
    /\ op[t].drains = 0
    /\ pc[t] \in {"flush_lock", "flush_drain"}

\* C20: whenever no submit is in progress the buffer's length is strictly
\* below the batch threshold, in every interleaving of submits with the
\* worker's and Stop's flushes; the length reaches or exceeds the threshold
\* only while some submit that saw Add return true has not yet run its
\* flush.
C20_QuietBufferBelowThreshold ==
    /\ (\A t \in Threads : InPush(t) => Returned(t)) =>
          Len(buffer.entries) < buffer.size
    /\ Len(buffer.entries) >= buffer.size =>
          \E t \in Threads : FlushPending(t)

\* a submit has brought the buffer to its threshold and is about to flush,
\* racing with the worker's periodic flush
C20_Witness ==
    /\ Len(buffer.entries) = buffer.size
    /\ \E t \in Threads : FlushPending(t) /\ pc[t] = "flush_lock"
    /\ pc[Worker] = "flush_lock"
    /\ local[Worker].ret = "w_setlast"

\* C21: the stop-signal channel, of capacity 1, receives at most one message
\* over the life of a client, so the send in Stop never blocks: a Stop that
\* has come to its send finds the channel empty and nothing sent before,
\* in every interleaving of Start, Stop and the worker, whether the worker
\* has begun, runs or has exited.
C21_DoneSentAtMostOnce ==
    /\ hist.doneSends <= 1
    /\ done \in {0, 1}
    /\ \A t \in Threads :
          pc[t] = "stop_signal" =>
              /\ done = 0
              /\ hist.doneSends = 0
              /\ ENABLED StopSignal(t)

\* Stop has sent its signal before the worker that Start spawns has begun,
\* and the other goroutine is in a second Stop
C21_Witness ==
    /\ hist.doneSends = 1
    /\ done = 1
    /\ pc[Worker] \in {"w_unborn", "w_init"}
    /\ \E t \in Threads : pc[t] = "stop_sleep"
    /\ \E t \in Threads : pc[t] = "stop_swap"

----------------------------------------------------------------------------
(* Termination of the worker, checked under SpecFair *)

\* the worker has returned
WorkerExited == pc[Worker] = "w_exited"
\* the batches that the worker has drained
WorkerDrains == { k \in 1..Len(hist.drained) : hist.drained[k].by = Worker }

\* C18: after the first effective Stop on a started client the worker
\* eventually receives the stop signal, performs at most one last flush and
\* terminates (under fair scheduling, every send returning); once it has
\* terminated it performs no further flush; and the stop signal is
\* consumed by the worker and by nothing else: what Stop has sent is in
\* the channel or has been received by the worker, once.
C18_WorkerTerminatesAfterStop ==
    /\ (hist.stopWins > 0) ~> WorkerExited
    /\ [](/\ hist.doneSends = done + hist.doneRecvs
          /\ hist.doneRecvs <= 1
          /\ hist.lastFlushes <= 1
          /\ WorkerExited => hist.doneRecvs = 1 /\ done = 0 /\ ~ticker.on)
    /\ [][WorkerExited => /\ WorkerExited'
                          /\ WorkerDrains' = WorkerDrains
                          /\ hist.lastFlushes' = hist.lastFlushes]_vars

\* Stop has returned, its signal has been received, and the worker has run
\* its last flush and has returned
C18_Witness ==
    /\ WorkerExited
    /\ hist.stopWins = 1
    /\ hist.startedStopReturned
    /\ hist.doneRecvs = 1
    /\ hist.lastFlushes = 1
    /\ done = 0

====
